---- MODULE Spec2Model ----
(***************************************************************************)
(* dotnet_base64_decoder.py: Base64StringDecoder scans every method body   *)
(* of a loaded .NET module for `ldstr <literal>; call                      *)
(* System.Convert::FromBase64String`, decodes the literal and patches the  *)
(* two instructions in place; main() prints the decoded pairs and saves    *)
(* the module when at least one pair was produced.                         *)
(*                                                                         *)
(* Text is a sequence of Unicode code points, bytes are 0..255.            *)
(* Instruction objects are references: a body is a sequence of object ids  *)
(* and `insns` maps each id to the instruction's (OpCode, Operand).        *)
(***************************************************************************)
EXTENDS Integers, Sequences, FiniteSets, TLC

VARIABLES file_module, insns, loaded, base64_calls, decoded_strings, errors,
          pc, printed, written

vars == <<file_module, insns, loaded, base64_calls, decoded_strings, errors,
          pc, printed, written>>

\* Size bound of the modules explored: types + methods + instructions.
MaxNodes == 6

(***************************************************************************)
(* base64.b64decode(s) followed by bytes.decode('utf-8')                   *)
(***************************************************************************)
Fail == [ok |-> FALSE, val |-> <<>>]

Ok(v) == [ok |-> TRUE, val |-> v]

\* binascii's table_a2b_base64: value of an alphabet character, 64 otherwise.
B64Value(ch) ==
  IF ch >= 65 /\ ch <= 90 THEN ch - 65
  ELSE IF ch >= 97 /\ ch <= 122 THEN ch - 71
  ELSE IF ch >= 48 /\ ch <= 57 THEN ch + 4
  ELSE IF ch = 43 THEN 62
  ELSE IF ch = 47 THEN 63
  ELSE 64

\* base64._bytes_from_decode_data: a str argument must encode as ASCII.
IsAscii(s) == \A i \in 1..Len(s) : s[i] < 128

\* binascii.a2b_base64 (non-strict): the loop over the characters from
\* position i, with quad_pos, leftchar, pads and the bytes produced so far.
RECURSIVE A2bLoop(_, _, _, _, _, _)
A2bLoop(s, i, quad_pos, leftchar, pads, out) ==
  IF i > Len(s)
  THEN IF quad_pos # 0 THEN Fail ELSE Ok(out)
  ELSE LET ch == s[i]
           v  == B64Value(ch)
       IN IF ch = 61
          THEN IF quad_pos >= 2 /\ quad_pos + pads + 1 >= 4
               THEN Ok(out)
               ELSE A2bLoop(s, i + 1, quad_pos, leftchar,
                            IF quad_pos >= 2 THEN pads + 1 ELSE pads, out)
          ELSE IF v >= 64
          THEN A2bLoop(s, i + 1, quad_pos, leftchar, pads, out)
          ELSE IF quad_pos = 0
          THEN A2bLoop(s, i + 1, 1, v, 0, out)
          ELSE IF quad_pos = 1
          THEN A2bLoop(s, i + 1, 2, v % 16, 0,
                       Append(out, (leftchar * 4 + v \div 16) % 256))
          ELSE IF quad_pos = 2
          THEN A2bLoop(s, i + 1, 3, v % 4, 0,
                       Append(out, (leftchar * 16 + v \div 4) % 256))
          ELSE A2bLoop(s, i + 1, 0, 0, 0,
                       Append(out, (leftchar * 64 + v) % 256))

B64Decode(s) == IF IsAscii(s) THEN A2bLoop(s, 1, 0, 0, 0, <<>>) ELSE Fail

IsCont(b, i) == i <= Len(b) /\ b[i] >= 128 /\ b[i] <= 191

\* bytes.decode('utf-8'), errors='strict': shortest form only, no
\* surrogates, nothing above U+10FFFF.
RECURSIVE Utf8Loop(_, _, _)
Utf8Loop(b, i, out) ==
  IF i > Len(b) THEN Ok(out)
  ELSE LET c == b[i] IN
    IF c < 128 THEN Utf8Loop(b, i + 1, Append(out, c))
    ELSE IF c >= 194 /\ c <= 223
    THEN IF IsCont(b, i + 1)
         THEN Utf8Loop(b, i + 2, Append(out, (c - 192) * 64 + (b[i + 1] - 128)))
         ELSE Fail
    ELSE IF c >= 224 /\ c <= 239
    THEN IF /\ IsCont(b, i + 1) /\ IsCont(b, i + 2)
            /\ (c = 224 => b[i + 1] >= 160)
            /\ (c = 237 => b[i + 1] <= 159)
         THEN Utf8Loop(b, i + 3,
                Append(out, (c - 224) * 4096 + (b[i + 1] - 128) * 64
                            + (b[i + 2] - 128)))
         ELSE Fail
    ELSE IF c >= 240 /\ c <= 244
    THEN IF /\ IsCont(b, i + 1) /\ IsCont(b, i + 2) /\ IsCont(b, i + 3)
            /\ (c = 240 => b[i + 1] >= 144)
            /\ (c = 244 => b[i + 1] <= 143)
         THEN Utf8Loop(b, i + 4,
                Append(out, (c - 240) * 262144 + (b[i + 1] - 128) * 4096
                            + (b[i + 2] - 128) * 64 + (b[i + 3] - 128)))
         ELSE Fail
    ELSE Fail

Utf8Decode(b) == Utf8Loop(b, 1, <<>>)

\* The body of the try block up to decoded_str: the decoded text, or a
\* failure when either step raises.
DecodeText(base64_str) ==
  LET decoded_bytes == B64Decode(base64_str)
  IN IF decoded_bytes.ok THEN Utf8Decode(decoded_bytes.val) ELSE Fail

(***************************************************************************)
(* The dnlib object model as the script uses it                            *)
(***************************************************************************)
NoOperand == [kind |-> "None", text |-> <<>>, DeclaringType |-> "", Name |-> ""]

StringOperand(t) ==
  [kind |-> "String", text |-> t, DeclaringType |-> "", Name |-> ""]

MemberRef(type, name) ==
  [kind |-> "MemberRef", text |-> <<>>, DeclaringType |-> type, Name |-> name]

MethodDef(type, name) ==
  [kind |-> "MethodDef", text |-> <<>>, DeclaringType |-> type, Name |-> name]

Instruction(opcode, operand) == [OpCode |-> opcode, Operand |-> operand]

\* "SGVsbG8=", base64 of "Hello"
TextHello == <<83, 71, 86, 115, 98, 71, 56, 61>>

\* "w6k=", base64 of the two-byte UTF-8 form of U+00E9
TextEAcute == <<119, 54, 107, 61>>

\* "not-base64!!": nine alphabet characters, so binascii raises
TextNotBase64 == <<110, 111, 116, 45, 98, 97, 115, 101, 54, 52, 33, 33>>

\* "/w==", base64 of the byte FF, which is not UTF-8
TextNotUtf8 == <<47, 119, 61, 61>>

\* "": b64decode gives no bytes, which decode to the empty text
TextEmpty == <<>>

Literals == {TextHello, TextEAcute, TextEmpty, TextNotBase64, TextNotUtf8}

\* The instructions a loaded body is drawn from.
InstructionSet ==
  {Instruction("Ldstr", StringOperand(t)) : t \in Literals}
  \cup {Instruction("Call", MemberRef("System.Convert", "FromBase64String")),
        Instruction("Call", MemberRef("System.Convert", "ToBase64String")),
        Instruction("Call", MemberRef("My.Convert", "FromBase64String")),
        Instruction("Call", MethodDef("System.Convert", "FromBase64String")),
        Instruction("Callvirt", MemberRef("System.Convert", "FromBase64String")),
        Instruction("Nop", NoOperand)}

Max(a, b) == IF a >= b THEN a ELSE b

\* Layout of a module: per type, per method, the length of its body, or -1
\* for a method without a body.  A layout of cost c has c nodes.
RECURSIVE MethodLayouts(_)
MethodLayouts(c) ==
  IF c = 0 THEN {<<>>}
  ELSE UNION {{<<k>> \o r : r \in MethodLayouts(c - 1 - Max(k, 0))} :
              k \in (-1)..(c - 1)}

RECURSIVE TypeLayouts(_)
TypeLayouts(c) ==
  IF c = 0 THEN {<<>>}
  ELSE UNION {{<<ms>> \o r : ms \in MethodLayouts(c1 - 1),
                             r \in TypeLayouts(c - c1)} : c1 \in 1..c}

Layouts == UNION {TypeLayouts(c) : c \in 0..MaxNodes}

RECURSIVE BodySizes(_)
BodySizes(ms) ==
  IF ms = <<>> THEN 0 ELSE Max(Head(ms), 0) + BodySizes(Tail(ms))

RECURSIVE ModuleSize(_)
ModuleSize(ts) ==
  IF ts = <<>> THEN 0 ELSE BodySizes(Head(ts)) + ModuleSize(Tail(ts))

\* Methods of one type; the instruction objects get the ids next, next+1, ...
RECURSIVE LoadMethods(_, _)
LoadMethods(ms, next) ==
  IF ms = <<>> THEN <<>>
  ELSE LET k == Max(Head(ms), 0)
       IN <<[HasBody |-> Head(ms) >= 0,
             Instructions |-> [j \in 1..k |-> next + j - 1]]>>
          \o LoadMethods(Tail(ms), next + k)

RECURSIVE LoadTypes(_, _)
LoadTypes(ts, next) ==
  IF ts = <<>> THEN <<>>
  ELSE <<LoadMethods(Head(ts), next)>>
       \o LoadTypes(Tail(ts), next + BodySizes(Head(ts)))

\* ModuleDefMD.Load: Types, each a sequence of Methods.
Load(layout) == LoadTypes(layout, 1)

TypeOK ==
  /\ pc \in {"loaded", "identified", "decoded", "done", "raised"}
  /\ printed \in BOOLEAN /\ written \in BOOLEAN
  /\ DOMAIN insns = DOMAIN loaded
  /\ \A i \in DOMAIN insns : insns[i].OpCode \in {"Ldstr", "Call", "Callvirt", "Nop"}

\* Base64StringDecoder.__init__, at the point main() has constructed it.
Init ==
  \E layout \in Layouts :
    \E code \in [1..ModuleSize(layout) -> InstructionSet] :
      /\ file_module = Load(layout)
      /\ insns = code
      /\ loaded = code
      /\ base64_calls = <<>>
      /\ decoded_strings = <<>>
      /\ errors = <<>>
      /\ pc = "loaded"
      /\ printed = FALSE
      /\ written = FALSE

(***************************************************************************)
(* identify_base64_calls                                                   *)
(***************************************************************************)
\* What Instructions[-1] does is the host's: pythonnet hands the index to
\* the .NET indexer, which throws; a host with Python sequence semantics
\* wraps to the last element.
HostIndexing == {"raise", "wrap"}

\* IList.IndexOf: zero-based position of the first element that is the
\* given object, -1 when there is none.
IndexOf(list, obj) ==
  IF \E j \in 1..Len(list) : list[j] = obj
  THEN (CHOOSE j \in 1..Len(list) :
          list[j] = obj /\ \A l \in 1..(j - 1) : list[l] # obj) - 1
  ELSE -1

\* Instructions[index] with a zero-based index.
GetItem(list, index, host) ==
  IF index >= 0 /\ index < Len(list)
  THEN [raised |-> FALSE, val |-> list[index + 1]]
  ELSE IF host = "wrap" /\ index < 0 /\ index + Len(list) >= 0
  THEN [raised |-> FALSE, val |-> list[index + Len(list) + 1]]
  ELSE [raised |-> TRUE, val |-> 0]

\* IsTargetCall without the comparison of operand.Name.
IsTargetCall_AnyName(insn) ==
  /\ insn.OpCode = "Call"
  /\ insn.Operand.kind = "MemberRef"
  /\ insn.Operand.DeclaringType = "System.Convert"

\* Lines 44-48: a Call whose operand is a MemberRef of the target routine.
IsTargetCall(insn) ==
  /\ insn.OpCode = "Call"
  /\ insn.Operand.kind = "MemberRef"
  /\ insn.Operand.DeclaringType = "System.Convert"
  /\ insn.Operand.Name = "FromBase64String"

\* Line 49: Instructions[Instructions.IndexOf(insn) - 1].
Lookup(body, insn, host) == GetItem(body, IndexOf(body, insn) - 1, host)

\* IsLdstr without the comparison: any preceding instruction is taken.
IsLdstr_Any(insn) == TRUE

\* Line 50: prev_insn.OpCode == OpCodes.Ldstr.
IsLdstr(insn) == insn.OpCode = "Ldstr"

\* for insn in method.Body.Instructions, from position i on.
RECURSIVE ScanInstructions(_, _, _, _, _, _)
ScanInstructions(code, method_ref, body, i, calls, host) ==
  IF i > Len(body) THEN [raised |-> FALSE, calls |-> calls]
  ELSE LET insn == body[i] IN
    IF IsTargetCall(code[insn])
    THEN LET prev_insn == Lookup(body, insn, host) IN
           IF prev_insn.raised THEN [raised |-> TRUE, calls |-> calls]
           ELSE ScanInstructions(code, method_ref, body, i + 1,
                  IF IsLdstr(code[prev_insn.val])
                  THEN Append(calls, <<method_ref, insn, prev_insn.val>>)
                  ELSE calls, host)
    ELSE ScanInstructions(code, method_ref, body, i + 1, calls, host)

\* for method in module_type.Methods, from method m of type t on.
RECURSIVE ScanMethods(_, _, _, _, _, _)
ScanMethods(types, code, t, m, calls, host) ==
  IF m > Len(types[t]) THEN [raised |-> FALSE, calls |-> calls]
  ELSE LET method == types[t][m]
           r == IF ~method.HasBody THEN [raised |-> FALSE, calls |-> calls]
                ELSE ScanInstructions(code, <<t, m>>, method.Instructions, 1,
                                      calls, host)
       IN IF r.raised THEN r
          ELSE ScanMethods(types, code, t, m + 1, r.calls, host)

\* for module_type in self.file_module.Types, from type t on.
RECURSIVE ScanTypes(_, _, _, _, _)
ScanTypes(types, code, t, calls, host) ==
  IF t > Len(types) THEN [raised |-> FALSE, calls |-> calls]
  ELSE LET r == ScanMethods(types, code, t, 1, calls, host)
       IN IF r.raised THEN r ELSE ScanTypes(types, code, t + 1, r.calls, host)

\* identify_base64_calls neutralising each matched call while it scans.
identify_base64_calls_Patching ==
  /\ pc = "loaded"
  /\ \E host \in HostIndexing :
       LET r == ScanTypes(file_module, insns, 1, base64_calls, host)
       IN /\ base64_calls' = r.calls
          /\ insns' = [id \in DOMAIN insns |->
                         IF \E k \in 1..Len(r.calls) : r.calls[k][2] = id
                         THEN [insns[id] EXCEPT !.OpCode = "Nop"]
                         ELSE insns[id]]
          /\ pc' = IF r.raised THEN "raised" ELSE "identified"
  /\ UNCHANGED <<file_module, loaded, decoded_strings, errors,
                 printed, written>>

\* The call of main(), line 109: it returns, or the exception of line 49
\* leaves main() with the matches appended so far.
identify_base64_calls ==
  /\ pc = "loaded"
  /\ \E host \in HostIndexing :
       LET r == ScanTypes(file_module, insns, 1, base64_calls, host)
       IN /\ base64_calls' = r.calls
          /\ pc' = IF r.raised THEN "raised" ELSE "identified"
  /\ UNCHANGED <<file_module, insns, loaded, decoded_strings, errors,
                 printed, written>>

(***************************************************************************)
(* decode_base64_strings                                                   *)
(***************************************************************************)
\* Patch without line 67: the literal keeps its encoded operand.
Patch_KeepOperand(code, call_insn, str_insn, decoded_str) ==
  [code EXCEPT ![str_insn].OpCode = "Ldstr", ![call_insn].OpCode = "Nop"]

\* Patch without line 69: the call stays a call.
Patch_KeepCall(code, call_insn, str_insn, decoded_str) ==
  [code EXCEPT ![str_insn] = Instruction("Ldstr", StringOperand(decoded_str))]

\* Lines 67-69: the three assignments of a successful decode.
Patch(code, call_insn, str_insn, decoded_str) ==
  [code EXCEPT ![str_insn] = Instruction("Ldstr", StringOperand(decoded_str)),
               ![call_insn].OpCode = "Nop"]

\* One iteration of the loop of line 61 on the state st.
DecodeOne(st, match) ==
  LET call_insn  == match[2]
      str_insn   == match[3]
      base64_str == st.code[str_insn].Operand.text
      decoded    == DecodeText(base64_str)
  IN IF decoded.ok
     THEN [code    |-> Patch(st.code, call_insn, str_insn, decoded.val),
           decoded |-> Append(st.decoded, <<base64_str, decoded.val>>),
           errors  |-> st.errors]
     ELSE [code    |-> st.code,
           decoded |-> st.decoded,
           errors  |-> Append(st.errors, base64_str)]

\* DecodeLoop with the try around the loop: the first failure ends it.
RECURSIVE DecodeLoop_StopAtFailure(_, _, _)
DecodeLoop_StopAtFailure(calls, k, st) ==
  IF k > Len(calls) THEN st
  ELSE LET nxt == DecodeOne(st, calls[k])
       IN IF Len(nxt.errors) > Len(st.errors) THEN nxt
          ELSE DecodeLoop_StopAtFailure(calls, k + 1, nxt)

RECURSIVE DecodeLoop(_, _, _)
DecodeLoop(calls, k, st) ==
  IF k > Len(calls) THEN st
  ELSE DecodeLoop(calls, k + 1, DecodeOne(st, calls[k]))

\* The call of main(), line 111.
decode_base64_strings ==
  /\ pc = "identified"
  /\ LET st == DecodeLoop(base64_calls, 1,
                 [code |-> insns, decoded |-> <<>>, errors |-> errors])
     IN /\ insns' = st.code
        /\ decoded_strings' = st.decoded
        /\ errors' = st.errors
  /\ pc' = "decoded"
  /\ UNCHANGED <<file_module, loaded, base64_calls, printed, written>>

(***************************************************************************)
(* main, lines 112-119                                                     *)
(***************************************************************************)
\* report_and_save without the test of line 112.
report_and_save_Unconditional ==
  /\ pc = "decoded"
  /\ printed' = TRUE
  /\ written' = TRUE
  /\ pc' = "done"
  /\ UNCHANGED <<file_module, insns, loaded, base64_calls, decoded_strings,
                 errors>>

\* if decoded_strings: print the table and the count, save_module().
report_and_save ==
  /\ pc = "decoded"
  /\ decoded_strings # <<>>
  /\ printed' = TRUE
  /\ written' = TRUE
  /\ pc' = "done"
  /\ UNCHANGED <<file_module, insns, loaded, base64_calls, decoded_strings,
                 errors>>

\* The falsy branch of line 112: main() returns.
return_unmodified ==
  /\ pc = "decoded"
  /\ decoded_strings = <<>>
  /\ pc' = "done"
  /\ UNCHANGED <<file_module, insns, loaded, base64_calls, decoded_strings,
                 errors, printed, written>>

Next ==
  \/ identify_base64_calls
  \/ decode_base64_strings
  \/ report_and_save
  \/ return_unmodified

Spec == Init /\ [][Next]_vars

(***************************************************************************)
(* Properties                                                              *)
(***************************************************************************)
\* The decoded text of the literals above, as CPython 3.11 computes
\* base64.b64decode(s).decode('utf-8'); the other two literals raise.
KnownText ==
  (TextHello :> <<72, 101, 108, 108, 111>>) @@ (TextEAcute :> <<233>>)
  @@ (TextEmpty :> <<>>)

ValidLiteral(t) == t \in DOMAIN KnownText

CallOf(k) == base64_calls[k][2]

StrOf(k) == base64_calls[k][3]

BodyOf(k) ==
  file_module[base64_calls[k][1][1]][base64_calls[k][1][2]].Instructions

EncodedOf(k) == loaded[StrOf(k)].Operand.text

Matches == DOMAIN base64_calls

GoodMatches == {k \in Matches : ValidLiteral(EncodedOf(k))}

\* The bodies of the module's methods that have one.
Bodies ==
  UNION {{file_module[t][m].Instructions :
            m \in {n \in 1..Len(file_module[t]) : file_module[t][n].HasBody}} :
         t \in 1..Len(file_module)}

\* A call instruction of the target routine, by opcode and callee names.
CallsTarget(insn) ==
  /\ insn.OpCode = "Call"
  /\ insn.Operand.kind = "MemberRef"
  /\ insn.Operand.DeclaringType = "System.Convert"
  /\ insn.Operand.Name = "FromBase64String"

Patched == pc \in {"decoded", "done"}

\* C1: when a call of System.Convert.FromBase64String is the first
\* instruction of a body, the scan does not raise and records no match for
\* that call (it neither reads before the start nor wraps to the end).
C1_FirstCallHandled ==
  \A body \in Bodies :
    (Len(body) >= 1 /\ CallsTarget(loaded[body[1]]))
      => /\ pc # "raised"
         /\ \A k \in Matches : CallOf(k) # body[1]

\* C2: after decode_base64_strings, every match whose literal is valid
\* base64 of valid UTF-8 has its literal instruction Ldstr <decoded text>,
\* its call instruction Nop, and its (encoded, decoded) pair in the list.
C2_ValidLiteralPatched ==
  Patched =>
    \A k \in GoodMatches :
      /\ insns[StrOf(k)] =
           Instruction("Ldstr", StringOperand(KnownText[EncodedOf(k)]))
      /\ insns[CallOf(k)].OpCode = "Nop"
      /\ \E j \in DOMAIN decoded_strings :
           decoded_strings[j] = <<EncodedOf(k), KnownText[EncodedOf(k)]>>

\* The end-to-end scenario [Ldstr "SGVsbG8=", Call FromBase64String].
C2_Witness ==
  /\ pc = "decoded"
  /\ file_module = <<<<[HasBody |-> TRUE, Instructions |-> <<1, 2>>]>>>>
  /\ loaded = <<Instruction("Ldstr", StringOperand(TextHello)),
                Instruction("Call", MemberRef("System.Convert", "FromBase64String"))>>
  /\ insns = <<Instruction("Ldstr", StringOperand(<<72, 101, 108, 108, 111>>)),
               Instruction("Nop", MemberRef("System.Convert", "FromBase64String"))>>
  /\ decoded_strings = <<<<TextHello, <<72, 101, 108, 108, 111>>>>>>

\* C3: of the N recorded matches all are processed, the M with a valid
\* literal are patched and give the M pairs returned, the other N-M are
\* reported and keep both instructions, and nothing else changes.
C3_EveryMatchProcessed ==
  Patched =>
    /\ Len(decoded_strings) + Len(errors) = Len(base64_calls)
    /\ Len(decoded_strings) = Cardinality(GoodMatches)
    /\ \A k \in GoodMatches :
         /\ insns[CallOf(k)].OpCode = "Nop"
         /\ insns[StrOf(k)].Operand.text = KnownText[EncodedOf(k)]
    /\ \A k \in Matches \ GoodMatches :
         /\ insns[CallOf(k)] = loaded[CallOf(k)]
         /\ insns[StrOf(k)] = loaded[StrOf(k)]
    /\ {id \in DOMAIN insns : insns[id] # loaded[id]}
         \subseteq {CallOf(k) : k \in GoodMatches} \cup {StrOf(k) : k \in GoodMatches}

\* A failing match recorded before a decodable one, both processed.
C3_Witness ==
  /\ pc = "decoded"
  /\ \E k \in Matches \ GoodMatches :
       \E l \in GoodMatches :
         /\ k < l
         /\ insns[CallOf(k)].OpCode = "Call"
         /\ insns[CallOf(l)].OpCode = "Nop"

\* The instruction after id in its body is a call of the target routine.
FollowedByTarget(id) ==
  \E body \in Bodies :
    \E j \in 1..(Len(body) - 1) :
      body[j] = id /\ CallsTarget(loaded[body[j + 1]])

C5_OnlyTargetSignature ==
  \A id \in DOMAIN loaded :
    (\/ loaded[id].Operand.DeclaringType # "System.Convert"
     \/ loaded[id].Operand.Name # "FromBase64String")
      => \A k \in Matches : CallOf(k) # id

\* A scanned body with Ldstr "SGVsbG8=" followed by a call of another
\* member of System.Convert, and of the same member of another type.
C5_Witness ==
  /\ pc = "identified"
  /\ \E body \in Bodies :
       \E j \in 1..(Len(body) - 1) :
         /\ loaded[body[j]] = Instruction("Ldstr", StringOperand(TextHello))
         /\ loaded[body[j + 1]].OpCode = "Call"
         /\ loaded[body[j + 1]].Operand.kind = "MemberRef"
         /\ loaded[body[j + 1]].Operand.Name # "FromBase64String"
         /\ \A k \in Matches : CallOf(k) # body[j + 1]

\* C6: the module is written exactly when decode_base64_strings returned a
\* pair, only once every match has been processed, and the table is
\* printed exactly when the module is written.
C6_WriteIffDecoded ==
  /\ written => /\ pc = "done"
                /\ decoded_strings # <<>>
                /\ Len(decoded_strings) + Len(errors) = Len(base64_calls)
  /\ pc = "done" => (written <=> decoded_strings # <<>>)
  /\ printed <=> written

\* The module is written after a run in which one match failed to decode.
C6_Witness ==
  /\ pc = "done"
  /\ written
  /\ errors # <<>>

C8_ScanThenPatch ==
  /\ [](pc = "loaded" => insns = loaded)
  /\ [][/\ pc = "loaded" => (insns' = insns /\ file_module' = file_module)
        /\ insns' # insns => (pc = "identified" /\ pc' = "decoded")]_vars

\* The scan has completed with a match and nothing is patched yet.
C8_Witness ==
  /\ pc = "identified"
  /\ GoodMatches # {}
  /\ insns = loaded

\* dnlib's OperandType of the opcodes used: what the instruction stream
\* holds after the opcode.
OperandType(opcode) ==
  CASE opcode = "Nop" -> "InlineNone"
    [] opcode = "Ldstr" -> "InlineString"
    [] opcode \in {"Call", "Callvirt"} -> "InlineMethod"

\* The stream refers to FromBase64String at this instruction.
ReferencesTarget(insn) ==
  /\ OperandType(insn.OpCode) = "InlineMethod"
  /\ insn.Operand.DeclaringType = "System.Convert"
  /\ insn.Operand.Name = "FromBase64String"

TargetReferences(code) ==
  {id \in DOMAIN code : ReferencesTarget(code[id])}

\* C9: after a successful patch the former call is a Nop, an opcode with
\* no operand, so the stream has one reference to FromBase64String less
\* for each patched match.
C9_CallNeutralised ==
  Patched =>
    /\ \A k \in GoodMatches :
         /\ ReferencesTarget(loaded[CallOf(k)])
         /\ OperandType(insns[CallOf(k)].OpCode) = "InlineNone"
         /\ ~ReferencesTarget(insns[CallOf(k)])
    /\ TargetReferences(insns) =
         TargetReferences(loaded) \ {CallOf(k) : k \in GoodMatches}

\* A patched module that keeps a reference of a match that failed.
C9_Witness ==
  /\ pc = "decoded"
  /\ GoodMatches # {}
  /\ TargetReferences(insns) # {}
  /\ TargetReferences(insns) # TargetReferences(loaded)

\* The pairs the matches from k on give when each is decoded on its own.
RECURSIVE PairsFrom(_)
PairsFrom(k) ==
  IF k > Len(base64_calls) THEN <<>>
  ELSE (IF k \in GoodMatches
        THEN <<<<EncodedOf(k), KnownText[EncodedOf(k)]>>>>
        ELSE <<>>) \o PairsFrom(k + 1)

\* C10: the matches of one method are listed in instruction order, each
\* has two distinct instructions, no instruction is in two matches, and
\* the pairs returned are those of each match decoded on its own.
C10_DisjointMatches ==
  /\ \A k \in Matches : CallOf(k) # StrOf(k)
  /\ \A k, l \in Matches :
       k < l =>
         /\ {CallOf(k), StrOf(k)} \cap {CallOf(l), StrOf(l)} = {}
         /\ base64_calls[k][1] = base64_calls[l][1]
              => IndexOf(BodyOf(k), CallOf(k)) < IndexOf(BodyOf(l), CallOf(l))
  /\ Patched => decoded_strings = PairsFrom(1)

\* Two matches of one method, both decodable, patched.
C10_Witness ==
  /\ pc = "decoded"
  /\ Cardinality(GoodMatches) >= 2
  /\ \E k, l \in GoodMatches : k < l /\ base64_calls[k][1] = base64_calls[l][1]

====
